---------------------------- MODULE Spec2Model ----------------------------
(***************************************************************************)
(* A model of tools/dupe_detector.py: the per-frame gradient hash, the     *)
(* majority-vote combiner, the video sampler with its decode handle, the   *)
(* audio / video / fallback dispatcher, the duplicate grouping loop and    *)
(* the two renderings of main.                                             *)
(*                                                                         *)
(* Strings are sequences of one-character strings, so that prefixes,       *)
(* suffixes, lower-casing and lexicographic order are computed.  Python    *)
(* integers are unbounded; the 64-bit hashes do not fit TLC's integers, so *)
(* a Python int is its binary numeral: the sequence of its bits, most      *)
(* significant first, without leading zeros (0 is the empty sequence).     *)
(***************************************************************************)
EXTENDS Integers, Sequences, FiniteSets, TLC

VARIABLES
    files,          \* main: the list find_files returned (file records)
    kinds,          \* main: the enabled kinds, a subset of {"audio","video"}
    sample_frames,  \* main: args.sample_frames
    fpcalc_on_path, \* environment: whether shutil.which("fpcalc") finds the tool
    pc,             \* position of the run
    groups,         \* find_duplicates: the defaultdict, in insertion order
    produced,       \* the FingerprintResult fingerprint_file returned, per file
    caps,           \* every cv2.VideoCapture created so far, with its state
    indices,        \* video_perceptual_hash: the frame indices to attempt
    k,              \* video_perceptual_hash: how many indices were attempted
    hashes,         \* video_perceptual_hash: the frame hashes collected
    fp,             \* fingerprint_file: the result being returned
    dupes,          \* find_duplicates: the filtered mapping returned
    out,            \* main: what was printed
    exc,            \* the exception that ended the run, or None
    arg,            \* a pure function's arguments (the function specifications)
    ret             \* a pure function's result

vars == <<files, kinds, sample_frames, fpcalc_on_path, pc, groups, produced,
          caps, indices, k, hashes, fp, dupes, out, exc, arg, ret>>

None == "None"

----------------------------------------------------------------------------
(* Bounds of the model.                                                    *)

MaxFiles == 3       \* longest file list drawn from the catalogue
MaxSample == 3      \* largest --sample-frames
MaxHashes == 3      \* longest list handed to the combiner on its own
MaxBits == 3        \* largest hash_bits handed to the combiner on its own
MaxHashSize == 2    \* largest hash_size handed to the frame hasher on its own
MaxPix == 1         \* largest pixel intensity of those frames

(* Program constants.                                                      *)

HashSize == 8       \* frame_ahash's default hash_size
HashBits == 64      \* combine_hashes_hash_majority's default hash_bits
HexWidth == 16      \* the width of the format specification 016x
DetailPrefix == 12  \* fallback[:12]

----------------------------------------------------------------------------
(* Characters and strings.                                                 *)

\* The characters the model uses, in code-point order.
Chars ==
    <<" ",".","0","1","2","3","4","5","6","7","8","9",":","=",
      "A","B","C","D","E","F","G","H","I","J","K","L","M","N","O","P","Q",
      "R","S","T","U","V","W","X","Y","Z","_",
      "a","b","c","d","e","f","g","h","i","j","k","l","m","n","o","p","q",
      "r","s","t","u","v","w","x","y","z">>

Ord(c) == CHOOSE n \in 1..Len(Chars) : Chars[n] = c

Uppers ==
    <<"A","B","C","D","E","F","G","H","I","J","K","L","M","N","O","P","Q",
      "R","S","T","U","V","W","X","Y","Z">>

Lowers ==
    <<"a","b","c","d","e","f","g","h","i","j","k","l","m","n","o","p","q",
      "r","s","t","u","v","w","x","y","z">>

\* str.lower()
LowerChar(c) ==
    IF \E n \in 1..Len(Uppers) : Uppers[n] = c
    THEN Lowers[CHOOSE n \in 1..Len(Uppers) : Uppers[n] = c]
    ELSE c

Lower(s) == [n \in 1..Len(s) |-> LowerChar(s[n])]

\* Python's < on str: by code point, a proper prefix first.
StrLess(s, t) ==
    \E n \in 1..(Len(t)) :
        /\ \A m \in 1..(n - 1) : m <= Len(s) /\ s[m] = t[m]
        /\ \/ n = Len(s) + 1
           \/ n <= Len(s) /\ Ord(s[n]) < Ord(t[n])

\* str.strip(): leading and trailing whitespace removed.
RECURSIVE Strip(_)
Strip(s) ==
    IF s = <<>> THEN s
    ELSE IF Head(s) = " " THEN Strip(Tail(s))
    ELSE IF s[Len(s)] = " " THEN Strip(SubSeq(s, 1, Len(s) - 1))
    ELSE s

\* str(n) of a natural number
RECURSIVE DecStr(_)
DecStr(n) ==
    IF n < 10 THEN <<Chars[3 + n]>>
    ELSE DecStr(n \div 10) \o <<Chars[3 + (n % 10)]>>

----------------------------------------------------------------------------
(* Python integers as binary numerals.                                     *)

Zero == <<>>

\* (value << 1) | bit
ShlOr(value, bit) ==
    IF value = Zero /\ bit = 0 THEN Zero ELSE Append(value, bit)

\* (value << width) | low, for low < 2^width
ShlOrWide(value, low, width) ==
    IF value = Zero THEN low
    ELSE value \o [m \in 1..(width - Len(low)) |-> 0] \o low

\* h & (1 << n) is non-zero
BitSet(h, n) == n < Len(h) /\ h[Len(h) - n] = 1

\* The number a numeral denotes (for numerals that fit TLC's integers).
RECURSIVE ToNat(_)
ToNat(v) ==
    IF v = Zero THEN 0 ELSE 2 * ToNat(SubSeq(v, 1, Len(v) - 1)) + v[Len(v)]

\* The numeral of a number.
RECURSIVE FromNat(_)
FromNat(n) ==
    IF n = 0 THEN Zero ELSE Append(FromNat(n \div 2), n % 2)

RECURSIVE Pow2(_)
Pow2(n) == IF n = 0 THEN 1 ELSE 2 * Pow2(n - 1)

----------------------------------------------------------------------------
(* frame_ahash.  cv2.cvtColor and cv2.resize are the decoding library's;   *)
(* a frame is modelled by the grid cv2.resize returns for it: hash_size    *)
(* rows of hash_size + 1 intensities.                                      *)

PairBitNotLess(left, right) == right >= left

\* One element of resized[:, 1:] > resized[:, :-1]: the pixel of column c + 1
\* against the pixel of column c.
PairBit(left, right) == right > left

\* diff.flatten(): row-major
FlatBits(resized, hash_size) ==
    [n \in 1..(hash_size * hash_size) |->
        LET r == ((n - 1) \div hash_size) + 1
            c == ((n - 1) % hash_size) + 1
        IN  IF PairBit(resized[r][c], resized[r][c + 1]) THEN 1 ELSE 0]

\* value = 0; for bit in bits[lo..hi]: value = (value << 1) | bit.
\* The fold is evaluated by halves, (left << width of right) | right, which
\* keeps the evaluation shallow for 64 bits.
RECURSIVE PackBits(_, _, _)
PackBits(bits, lo, hi) ==
    IF lo > hi THEN Zero
    ELSE IF lo = hi THEN ShlOr(Zero, bits[lo])
    ELSE LET mid == (lo + hi) \div 2
         IN  ShlOrWide(PackBits(bits, lo, mid), PackBits(bits, mid + 1, hi),
                       hi - mid)

frame_ahash(resized, hash_size) ==
    LET bits == FlatBits(resized, hash_size)
    IN  PackBits(bits, 1, Len(bits))

----------------------------------------------------------------------------
(* combine_hashes_hash_majority                                            *)

StrictMajority(c, n) == 2 * c > n

\* c >= threshold, with threshold = len(hashes) / 2 (true division)
MeetsThreshold(c, n) == 2 * c >= n

Counts(hs, hash_bits) ==
    [j \in 1..hash_bits |->
        Cardinality({m \in 1..Len(hs) : BitSet(hs[m], hash_bits - j)})]

\* lines 116-120: combined = (combined << 1) | int(c >= threshold), per count
combine_hashes_hash_majority(hs, hash_bits) ==
    IF hs = <<>> THEN Zero
    ELSE LET counts == Counts(hs, hash_bits)
             votes == [j \in 1..hash_bits |->
                         IF MeetsThreshold(counts[j], Len(hs)) THEN 1 ELSE 0]
         IN  PackBits(votes, 1, hash_bits)

----------------------------------------------------------------------------
(* String literals of the program.                                         *)

AUDIO_EXTS ==
    { <<".","m","p","3">>, <<".","f","l","a","c">>, <<".","w","a","v">>,
      <<".","m","4","a">>, <<".","a","a","c">>, <<".","o","g","g">>,
      <<".","w","m","a">> }

VIDEO_EXTS ==
    { <<".","m","p","4">>, <<".","m","k","v">>, <<".","a","v","i">>,
      <<".","m","o","v">>, <<".","w","m","v">>, <<".","w","e","b","m">>,
      <<".","f","l","v">>, <<".","m","4","v">> }

FingerprintTag == <<"F","I","N","G","E","R","P","R","I","N","T","=">>

VhashTag == <<"v","h","a","s","h",":">>

FpcalcTag == <<"f","p","c","a","l","c",":">>

CharsTag == <<"c","h","a","r","s">>

Sha256Tag == <<"s","h","a","2","5","6",":">>

Ellipsis == <<".",".",".">>

HexDigits == <<"0","1","2","3","4","5","6","7","8","9","a","b","c","d","e","f">>

----------------------------------------------------------------------------
(* The environment: files and what the collaborators answer for them.      *)
(*   name      the file name (str(path))                                   *)
(*   readable  whether path.open("rb") succeeds                            *)
(*   content   the file's bytes                                            *)
(*   fpcalc    what running fpcalc on it gives: the exit status (or the    *)
(*             OSError subprocess.run raises) and the lines of stdout      *)
(*   video     what cv2.VideoCapture gives: whether it opens, the frame    *)
(*             count it reports, and for each frame index whether          *)
(*             cap.read() decodes it, to which frame, and whether          *)
(*             cv2.cvtColor accepts that frame                             *)

File(name, readable, content, fpcalc, video) ==
    [name |-> name, readable |-> readable, content |-> content,
     fpcalc |-> fpcalc, video |-> video]

Duration == <<"D","U","R","A","T","I","O","N","=","1","2","0">>

FpLine(s) == FingerprintTag \o s

FpcalcOk == [exit |-> "0", stdout |-> <<Duration, FpLine(<<"A","Q","A","B">>)>>]
FpcalcOkPadded ==
    [exit |-> "0", stdout |-> <<Duration, FpLine(<<" ","A","Q","A","B"," ">>)>>]
FpcalcNonZero == [exit |-> "1", stdout |-> <<>>]
FpcalcNoLine == [exit |-> "0", stdout |-> <<Duration>>]
FpcalcEmpty == [exit |-> "0", stdout |-> <<Duration, FpLine(<<" ">>)>>]
FpcalcOSError == [exit |-> "OSError", stdout |-> <<>>]

FpcalcOutcomes ==
    {FpcalcOk, FpcalcOkPadded, FpcalcNonZero, FpcalcNoLine, FpcalcEmpty,
     FpcalcOSError}

\* Three decoded frames, as their resized 8 x 9 grids.
Grid(id) ==
    [r \in 1..HashSize |-> [c \in 1..(HashSize + 1) |->
        CASE id = "g1" -> (r * c) % 5
          [] id = "g2" -> (r + 2 * c) % 7
          [] OTHER     -> (r * r + c) % 3]]

Decoded(id) == [ok |-> TRUE, grid |-> id, bad |-> FALSE]
Undecodable == [ok |-> FALSE, grid |-> "g1", bad |-> FALSE]
\* A frame cap.read() returns and cv2.cvtColor raises cv2.error on.
Rejected == [ok |-> TRUE, grid |-> "g1", bad |-> TRUE]

Video(opens, frame_count, frames) ==
    [opens |-> opens, frame_count |-> frame_count, frames |-> frames]

NoVideo == Video(FALSE, 0, <<>>)

VideoOutcomes ==
    { NoVideo,
      Video(TRUE, 0, <<Decoded("g1")>>),
      Video(TRUE, 1, <<Decoded("g2")>>),
      Video(TRUE, 3, <<Decoded("g1"), Undecodable, Decoded("g2")>>),
      Video(TRUE, 3, <<Decoded("g1"), Decoded("g2"), Decoded("g3")>>),
      Video(TRUE, 2, <<Undecodable, Undecodable>>),
      Video(TRUE, 2, <<Decoded("g3"), Rejected>>),
      Video(TRUE, 5, <<Undecodable, Decoded("g1"), Decoded("g2"), Undecodable,
                       Decoded("g3")>>) }

Names ==
    { <<"a",".","m","p","3">>, <<"b",".","M","P","3">>, <<"c",".","m","p","4">>, <<"e",".","t","x","t">>, <<"R","E","A","D","M","E">> }

\* Any one file.  A file that cannot be read can be opened by no tool.
AnyFiles ==
    { f \in { File(n, rd, "A", fo, v) :
                n \in Names, rd \in BOOLEAN, fo \in FpcalcOutcomes,
                v \in VideoOutcomes } :
        ~f.readable => (f.fpcalc = FpcalcNonZero /\ f.video = NoVideo) }

\* A directory of six files.
Catalogue ==
    { File(<<"a",".","m","p","3">>, TRUE, "A", FpcalcOk, NoVideo),
      File(<<"b",".","M","P","3">>, TRUE, "B", FpcalcOkPadded, NoVideo),
      File(<<"c",".","m","p","4">>, TRUE, "A",
           FpcalcNonZero, Video(TRUE, 3, <<Decoded("g1"), Undecodable, Decoded("g2")>>)),
      File(<<"d",".","M","K","V">>, TRUE, "B",
           FpcalcNonZero, Video(TRUE, 3, <<Decoded("g1"), Decoded("g3"), Decoded("g2")>>)),
      File(<<"e",".","t","x","t">>, TRUE, "A", FpcalcNonZero, NoVideo),
      File(<<"f",".","a","v","i">>, FALSE, "B", FpcalcNonZero, NoVideo) }

\* The lists of distinct files of the catalogue, in every order.
RECURSIVE ListsOf(_, _)
ListsOf(S, n) ==
    IF n = 0 THEN {<<>>}
    ELSE LET shorter == ListsOf(S, n - 1)
         IN  shorter \cup
             { Append(l, f) : l \in { x \in shorter : Len(x) = n - 1 },
                              f \in S } 

Distinct(l) == \A m, n \in 1..Len(l) : m # n => l[m] # l[n]

FileLists ==
    { l \in ListsOf(Catalogue, MaxFiles) : Distinct(l) }
        \cup { <<f>> : f \in AnyFiles }

----------------------------------------------------------------------------
(* Path.suffix                                                             *)

LastDot(name) ==
    IF \E n \in 1..Len(name) : name[n] = "."
    THEN CHOOSE n \in 1..Len(name) :
            name[n] = "." /\ \A m \in (n + 1)..Len(name) : name[m] # "."
    ELSE 0

Suffix(name) ==
    LET d == LastDot(name)
    IN  IF d > 1 /\ d < Len(name) THEN SubSeq(name, d, Len(name)) ELSE <<>>

----------------------------------------------------------------------------
(* run_fpcalc                                                              *)

StartsWith(s, prefix) ==
    Len(s) >= Len(prefix) /\ SubSeq(s, 1, Len(prefix)) = prefix

\* line.split("=", 1)[1]
AfterEquals(line) ==
    LET e == CHOOSE n \in 1..Len(line) :
                line[n] = "=" /\ \A m \in 1..(n - 1) : line[m] # "="
    IN  SubSeq(line, e + 1, Len(line))

Returned(v) == [raised |-> None, isNone |-> FALSE, val |-> v]
ReturnedNone == [raised |-> None, isNone |-> TRUE, val |-> <<>>]
Raised(e) == [raised |-> e, isNone |-> TRUE, val |-> <<>>]

RECURSIVE FirstFingerprint(_)
FirstFingerprint(lines) ==
    IF lines = <<>> THEN ReturnedNone
    ELSE IF StartsWith(Head(lines), FingerprintTag)
         THEN Returned(Strip(AfterEquals(Head(lines))))
         ELSE FirstFingerprint(Tail(lines))

run_fpcalc(f, on_path) ==
    IF ~on_path THEN ReturnedNone
    ELSE IF f.fpcalc.exit = "OSError" THEN Raised("OSError")
    ELSE IF f.fpcalc.exit # "0" THEN ReturnedNone
    ELSE FirstFingerprint(f.fpcalc.stdout)

----------------------------------------------------------------------------
(* sha256_file.  hashlib's SHA-256 is the library's: the digests of the    *)
(* two contents of the model are the real ones.                            *)

Sha256Hex(content) ==
    IF content = "A"
    THEN <<"5","5","9","a","e","a","d","0","8","2","6","4","d","5","7","9",
         "5","d","3","9","0","9","7","1","8","c","d","d","0","5","a","b",
         "d","4","9","5","7","2","e","8","4","f","e","5","5","5","9","0",
         "e","e","f","3","1","a","8","8","a","0","8","f","d","f","f","d">>
    ELSE <<"d","f","7","e","7","0","e","5","0","2","1","5","4","4","f","4",
         "8","3","4","b","b","e","e","6","4","a","9","e","3","7","8","9",
         "f","e","b","c","4","b","e","8","1","4","7","0","d","f","6","2",
         "9","c","a","d","6","d","d","b","0","3","3","2","0","a","5","c">>

sha256_file(f) ==
    IF f.readable THEN Returned(Sha256Hex(f.content)) ELSE Raised("OSError")

----------------------------------------------------------------------------
(* video_perceptual_hash: the pieces                                       *)

Max(a, b) == IF a >= b THEN a ELSE b

\* lines 130-133
Indices(frame_count, sf) ==
    IF frame_count > 0 /\ sf > 0
    THEN LET step == Max(1, frame_count \div sf)
         IN  [n \in 1..sf |-> (n - 1) * step]
    ELSE <<>>

\* cap.set(cv2.CAP_PROP_POS_FRAMES, idx); cap.read()
ReadFrame(f, idx) ==
    IF idx + 1 <= Len(f.video.frames) THEN f.video.frames[idx + 1]
    ELSE Undecodable

VideoResultAlways(hs) == Returned(combine_hashes_hash_majority(hs, HashBits))

\* lines 142-144
VideoResult(hs) ==
    IF hs = <<>> THEN ReturnedNone
    ELSE Returned(combine_hashes_hash_majority(hs, HashBits))

\* format(v, "016x"): lowercase hexadecimal, zero-padded to 16 digits
PadTo(v, n) == [m \in 1..Max(n, Len(v)) |->
                    IF m <= Max(n, Len(v)) - Len(v) THEN 0
                    ELSE v[m - (Max(n, Len(v)) - Len(v))]]

Hex016(v) ==
    LET digits == Max(HexWidth, (Len(v) + 3) \div 4)
        bits == PadTo(v, 4 * digits)
    IN  [d \in 1..digits |->
            HexDigits[1 + 8 * bits[4 * d - 3] + 4 * bits[4 * d - 2]
                        + 2 * bits[4 * d - 1] + bits[4 * d]]]

----------------------------------------------------------------------------
(* fingerprint_file: the pieces                                            *)

FingerprintResult(kind, key, detail) ==
    [kind |-> kind, key |-> key, detail |-> detail]

NoResult == FingerprintResult("none", <<>>, <<>>)

IsAudioAnyCase(f, ks) == Suffix(f.name) \in AUDIO_EXTS /\ "audio" \in ks

\* line 149
IsAudio(f, ks) == Lower(Suffix(f.name)) \in AUDIO_EXTS /\ "audio" \in ks

\* line 150
IsVideo(f, ks) == Lower(Suffix(f.name)) \in VIDEO_EXTS /\ "video" \in ks

TruthyNotNone(r) == ~r.isNone

\* if fp:
Truthy(r) == ~r.isNone /\ r.val # <<>>

AudioResult(v) ==
    FingerprintResult("audio", v, FpcalcTag \o DecStr(Len(v)) \o CharsTag)

VhashResult(v) ==
    FingerprintResult("video", VhashTag \o Hex016(v), VhashTag \o Hex016(v))

FallbackResult(digest) ==
    FingerprintResult("fallback", digest,
        Sha256Tag \o SubSeq(digest, 1, DetailPrefix) \o Ellipsis)

----------------------------------------------------------------------------
(* find_duplicates and the renderings: the pieces                          *)

\* groups[fp.key].append((p, fp)) on a dict that keeps insertion order
GroupsAppend(gs, key, item) ==
    IF \E n \in 1..Len(gs) : gs[n].key = key
    THEN [n \in 1..Len(gs) |->
            IF gs[n].key = key
            THEN [key |-> key, items |-> Append(gs[n].items, item)]
            ELSE gs[n]]
    ELSE Append(gs, [key |-> key, items |-> <<item>>])

IsDupeNonEmpty(g) == Len(g.items) > 0

\* len(v) > 1
IsDupe(g) == Len(g.items) > 1

\* {k: v for k, v in groups.items() if len(v) > 1}
FilterDupes(gs) == SelectSeq(gs, IsDupe)

\* sorted(..., key=...): a stable sort of records by their field sk
RECURSIVE InsertSorted(_, _)
InsertSorted(sorted, x) ==
    IF sorted = <<>> THEN <<x>>
    ELSE IF StrLess(x.sk, Head(sorted).sk) THEN <<x>> \o sorted
    ELSE <<Head(sorted)>> \o InsertSorted(Tail(sorted), x)

RECURSIVE SortedFrom(_, _)
SortedFrom(rest, sorted) ==
    IF rest = <<>> THEN sorted
    ELSE SortedFrom(Tail(rest), InsertSorted(sorted, Head(rest)))

GroupKey(g) == g.key
ItemPath(it) == it.path

\* sorted(dupes.items(), key=lambda kv: kv[0])
SortedGroups(ds) ==
    LET tagged == [n \in 1..Len(ds) |-> [sk |-> GroupKey(ds[n]), v |-> ds[n]]]
        sorted == SortedFrom(tagged, <<>>)
    IN  [n \in 1..Len(sorted) |-> sorted[n].v]

\* sorted(items, key=lambda x: str(x[0]))
SortedItems(items) ==
    LET tagged == [n \in 1..Len(items) |->
                      [sk |-> ItemPath(items[n]), v |-> items[n]]]
        sorted == SortedFrom(tagged, <<>>)
    IN  [n \in 1..Len(sorted) |-> sorted[n].v]

RECURSIVE Flatten(_)
Flatten(ss) == IF ss = <<>> THEN <<>> ELSE Head(ss) \o Flatten(Tail(ss))

\* format_report: a line is the sequence of the pieces its f-string joins
ReportLines(ds) ==
    LET byKey == SortedGroups(ds)
    IN  Flatten([n \in 1..Len(byKey) |->
            LET items == SortedItems(byKey[n].items)
            IN  <<[line |-> "hash", key |-> byKey[n].key,
                   count |-> DecStr(Len(byKey[n].items))]>>
                \o [m \in 1..Len(items) |->
                       [line |-> "item", path |-> items[m].path,
                        kind |-> items[m].fp.kind,
                        detail |-> items[m].fp.detail]]])

\* main, lines 205-222: payload["duplicates"] (root and recurse are the
\* arguments echoed back)
JsonDuplicates(ds) ==
    [n \in 1..Len(ds) |->
        [hash |-> ds[n].key,
         items |-> [m \in 1..Len(ds[n].items) |->
                      [path |-> ds[n].items[m].path,
                       kind |-> ds[n].items[m].fp.kind,
                       detail |-> ds[n].items[m].fp.detail]]]]

----------------------------------------------------------------------------
(* The run of main, from the file list on.  The module imported cv2 (main  *)
(* stops at line 194 otherwise), so line 124 never returns.                *)

Cur == files[Len(produced) + 1]

Unused == "unused"

Init ==
    /\ files \in FileLists
    /\ kinds \in SUBSET {"audio", "video"}
    /\ sample_frames \in 0..MaxSample
    /\ fpcalc_on_path \in BOOLEAN
    /\ pc = "main"
    /\ groups = <<>>
    /\ produced = <<>>
    /\ caps = <<>>
    /\ indices = <<>>
    /\ k = 0
    /\ hashes = <<>>
    /\ fp = NoResult
    /\ dupes = <<>>
    /\ out = [format |-> "none", body |-> <<>>]
    /\ exc = None
    /\ arg = Unused
    /\ ret = Unused

\* main, lines 199-202
Main ==
    /\ pc = "main"
    /\ IF files = <<>>
       THEN /\ out' = [format |-> "message", body |-> <<"No matching files found.">>]
            /\ pc' = "exit"
       ELSE /\ pc' = "loop"
            /\ out' = out
    /\ UNCHANGED <<files, kinds, sample_frames, fpcalc_on_path, groups, produced,
                   caps, indices, k, hashes, fp, dupes, exc, arg, ret>>

\* find_duplicates line 167-168, fingerprint_file lines 148-152
NextFile ==
    /\ pc = "loop"
    /\ Len(produced) < Len(files)
    /\ pc' = IF IsAudio(Cur, kinds) THEN "audio"
             ELSE IF IsVideo(Cur, kinds) THEN "video"
             ELSE "fallback"
    /\ fp' = NoResult
    /\ UNCHANGED <<files, kinds, sample_frames, fpcalc_on_path, groups, produced,
                   caps, indices, k, hashes, dupes, out, exc, arg, ret>>

\* fingerprint_file lines 153-156
Audio ==
    /\ pc = "audio"
    /\ LET r == run_fpcalc(Cur, fpcalc_on_path)
       IN  IF r.raised # None
           THEN /\ exc' = r.raised
                /\ pc' = "raised"
                /\ fp' = fp
           ELSE IF Truthy(r)
           THEN /\ fp' = AudioResult(r.val)
                /\ pc' = "append"
                /\ exc' = exc
           ELSE /\ pc' = IF IsVideo(Cur, kinds) THEN "video" ELSE "fallback"
                /\ UNCHANGED <<fp, exc>>
    /\ UNCHANGED <<files, kinds, sample_frames, fpcalc_on_path, groups, produced,
                   caps, indices, k, hashes, dupes, out, arg, ret>>

\* video_perceptual_hash lines 126-128 (and fingerprint_file line 158 when
\* the capture did not open)
VideoOpen ==
    /\ pc = "video"
    /\ IF Cur.video.opens
       THEN /\ caps' = Append(caps, "open")
            /\ pc' = "v_count"
       ELSE /\ caps' = Append(caps, "unopened")
            /\ pc' = "fallback"
    /\ UNCHANGED <<files, kinds, sample_frames, fpcalc_on_path, groups, produced,
                   indices, k, hashes, fp, dupes, out, exc, arg, ret>>

\* video_perceptual_hash lines 129-134
VideoCount ==
    /\ pc = "v_count"
    /\ indices' = Indices(Cur.video.frame_count, sample_frames)
    /\ k' = 0
    /\ hashes' = <<>>
    /\ pc' = "v_read"
    /\ UNCHANGED <<files, kinds, sample_frames, fpcalc_on_path, groups, produced,
                   caps, fp, dupes, out, exc, arg, ret>>

\* video_perceptual_hash lines 135-140: one turn of the loop
VideoRead ==
    /\ pc = "v_read"
    /\ k < Len(indices)
    /\ LET frame == ReadFrame(Cur, indices[k + 1])
       IN  IF ~frame.ok
           THEN /\ k' = k + 1
                /\ UNCHANGED <<hashes, pc, exc>>
           ELSE IF frame.bad
           THEN /\ exc' = "cv2.error"
                /\ pc' = "raised"
                /\ UNCHANGED <<hashes, k>>
           ELSE /\ hashes' = Append(hashes, frame_ahash(Grid(frame.grid), HashSize))
                /\ k' = k + 1
                /\ UNCHANGED <<pc, exc>>
    /\ UNCHANGED <<files, kinds, sample_frames, fpcalc_on_path, groups, produced,
                   caps, indices, fp, dupes, out, arg, ret>>

\* video_perceptual_hash lines 141-144, fingerprint_file lines 158-159
VideoRelease ==
    /\ pc = "v_read"
    /\ k = Len(indices)
    /\ caps' = [caps EXCEPT ![Len(caps)] = "released"]
    /\ LET vhash == VideoResult(hashes)
       IN  IF vhash.isNone
           THEN /\ pc' = "fallback"
                /\ fp' = fp
           ELSE /\ fp' = VhashResult(vhash.val)
                /\ pc' = "append"
    /\ UNCHANGED <<files, kinds, sample_frames, fpcalc_on_path, groups, produced,
                   indices, k, hashes, dupes, out, exc, arg, ret>>

\* fingerprint_file lines 161-162
Fallback ==
    /\ pc = "fallback"
    /\ LET r == sha256_file(Cur)
       IN  IF r.raised # None
           THEN /\ exc' = r.raised
                /\ pc' = "raised"
                /\ fp' = fp
           ELSE /\ fp' = FallbackResult(r.val)
                /\ pc' = "append"
                /\ exc' = exc
    /\ UNCHANGED <<files, kinds, sample_frames, fpcalc_on_path, groups, produced,
                   caps, indices, k, hashes, dupes, out, arg, ret>>

\* find_duplicates line 169
AppendResult ==
    /\ pc = "append"
    /\ groups' = GroupsAppend(groups, fp.key, [path |-> Cur.name, fp |-> fp])
    /\ produced' = Append(produced, fp)
    /\ pc' = "loop"
    /\ UNCHANGED <<files, kinds, sample_frames, fpcalc_on_path, caps, indices, k,
                   hashes, fp, dupes, out, exc, arg, ret>>

\* find_duplicates lines 170-171
ReturnDupes ==
    /\ pc = "loop"
    /\ Len(produced) = Len(files)
    /\ dupes' = FilterDupes(groups)
    /\ pc' = "render"
    /\ UNCHANGED <<files, kinds, sample_frames, fpcalc_on_path, groups, produced,
                   caps, indices, k, hashes, fp, out, exc, arg, ret>>

\* main lines 204-223, with --json
RenderJson ==
    /\ pc = "render"
    /\ out' = [format |-> "json", body |-> JsonDuplicates(dupes)]
    /\ pc' = "exit"
    /\ UNCHANGED <<files, kinds, sample_frames, fpcalc_on_path, groups, produced,
                   caps, indices, k, hashes, fp, dupes, exc, arg, ret>>

\* main lines 224-228, without --json
RenderText ==
    /\ pc = "render"
    /\ out' = IF dupes # <<>>
              THEN [format |-> "text", body |-> ReportLines(dupes)]
              ELSE [format |-> "message", body |-> <<"No duplicates detected.">>]
    /\ pc' = "exit"
    /\ UNCHANGED <<files, kinds, sample_frames, fpcalc_on_path, groups, produced,
                   caps, indices, k, hashes, fp, dupes, exc, arg, ret>>

Next ==
    \/ Main
    \/ NextFile
    \/ Audio
    \/ VideoOpen
    \/ VideoCount
    \/ VideoRead
    \/ VideoRelease
    \/ Fallback
    \/ AppendResult
    \/ ReturnDupes
    \/ RenderJson
    \/ RenderText

Spec == Init /\ [][Next]_vars

----------------------------------------------------------------------------
(* combine_hashes_hash_majority on its own: any list of up to MaxHashes    *)
(* hashes of width hash_bits, hash_bits up to MaxBits.                     *)

Idle ==
    /\ files = <<>>
    /\ kinds = {}
    /\ sample_frames = 0
    /\ fpcalc_on_path = FALSE
    /\ groups = <<>>
    /\ produced = <<>>
    /\ caps = <<>>
    /\ indices = <<>>
    /\ k = 0
    /\ hashes = <<>>
    /\ fp = NoResult
    /\ dupes = <<>>
    /\ out = [format |-> "none", body |-> <<>>]
    /\ exc = None

Numerals(bits) == { FromNat(n) : n \in 0..(Pow2(bits) - 1) }

InitCombine ==
    /\ Idle
    /\ pc = "call"
    /\ \E b \in 1..MaxBits :
          arg \in { [hashes |-> hs, hash_bits |-> b] :
                      hs \in ListsOf(Numerals(b), MaxHashes) }
    /\ ret = Unused

CallCombine ==
    /\ pc = "call"
    /\ ret' = combine_hashes_hash_majority(arg.hashes, arg.hash_bits)
    /\ pc' = "return"
    /\ UNCHANGED <<files, kinds, sample_frames, fpcalc_on_path, groups, produced,
                   caps, indices, k, hashes, fp, dupes, out, exc, arg>>

NextCombine == CallCombine

SpecCombine == InitCombine /\ [][NextCombine]_vars

----------------------------------------------------------------------------
(* frame_ahash on its own: any resized grid of hash_size rows and          *)
(* hash_size + 1 columns with intensities up to MaxPix, hash_size up to    *)
(* MaxHashSize.                                                            *)

Grids(hs) == [1..hs -> [1..(hs + 1) -> 0..MaxPix]]

InitAhash ==
    /\ Idle
    /\ pc = "call"
    /\ \E hs \in 1..MaxHashSize :
          arg \in { [resized |-> g, hash_size |-> hs] : g \in Grids(hs) }
    /\ ret = Unused

CallAhash ==
    /\ pc = "call"
    /\ ret' = frame_ahash(arg.resized, arg.hash_size)
    /\ pc' = "return"
    /\ UNCHANGED <<files, kinds, sample_frames, fpcalc_on_path, groups, produced,
                   caps, indices, k, hashes, fp, dupes, out, exc, arg>>

NextAhash == CallAhash

SpecAhash == InitAhash /\ [][NextAhash]_vars

----------------------------------------------------------------------------
(* What the properties speak of.                                           *)

Terminal == pc \in {"exit", "raised"}

\* The files fingerprint_file has been entered for.
Entered ==
    1..(IF pc \in {"main", "loop", "render", "exit"} THEN Len(produced)
        ELSE Len(produced) + 1)

\* fingerprint_file raised on file j.
RaisedOn(j) == pc = "raised" /\ j = Len(produced) + 1

\* fingerprint_file returned for file j.
ReturnedFor(j) == j <= Len(produced)

AudioExt(f) == Lower(Suffix(f.name)) \in AUDIO_EXTS
VideoExt(f) == Lower(Suffix(f.name)) \in VIDEO_EXTS

\* The audio collaborator works for f: it returns a non-empty fingerprint.
AudioWorks(f) ==
    fpcalc_on_path /\ f.fpcalc \in {FpcalcOk, FpcalcOkPadded}

\* The audio collaborator yields no result for f: the tool is not on the
\* path, exits non-zero, prints no FINGERPRINT line, or prints an empty one.
AudioYieldsNothing(f) ==
    ~fpcalc_on_path \/ f.fpcalc \in {FpcalcNonZero, FpcalcNoLine, FpcalcEmpty}

\* The frame indices the sampling policy names for f.
SampledIndices(f) ==
    IF f.video.opens /\ f.video.frame_count > 0 /\ sample_frames > 0
    THEN { n * Max(1, f.video.frame_count \div sample_frames) :
             n \in 0..(sample_frames - 1) }
    ELSE {}

FrameAt(f, idx) ==
    IF idx < Len(f.video.frames) THEN f.video.frames[idx + 1] ELSE Undecodable

\* At least one sampled frame of f decodes.
DecodedAny(f) == \E idx \in SampledIndices(f) : FrameAt(f, idx).ok

\* Hashing one of the sampled frames of f raises.
RejectedAny(f) ==
    \E idx \in SampledIndices(f) : FrameAt(f, idx).ok /\ FrameAt(f, idx).bad

HexDigitSet == { HexDigits[n] : n \in 1..Len(HexDigits) }

\* The binary numeral a string of hexadecimal digits denotes.
HexBits(digits) ==
    [n \in 1..(4 * Len(digits)) |->
        LET d == (CHOOSE x \in 1..16 : HexDigits[x] = digits[((n - 1) \div 4) + 1]) - 1
        IN  (d \div Pow2(3 - ((n - 1) % 4))) % 2]

RECURSIVE StripZeros(_)
StripZeros(bits) ==
    IF bits # <<>> /\ Head(bits) = 0 THEN StripZeros(Tail(bits)) ELSE bits

\* key is 'vhash:' followed by 16 lowercase hex digits.
IsVhashKey(key) ==
    /\ Len(key) = Len(VhashTag) + 16
    /\ SubSeq(key, 1, Len(VhashTag)) = VhashTag
    /\ \A n \in (Len(VhashTag) + 1)..Len(key) : key[n] \in HexDigitSet

\* key is the full SHA-256 hex digest of f's content.
IsDigestKey(key, f) ==
    /\ Len(key) = 64
    /\ \A n \in 1..Len(key) : key[n] \in HexDigitSet
    /\ key = Sha256Hex(f.content)

\* The j-th smallest element of a set of numbers.
Nth(S, j) == CHOOSE x \in S : Cardinality({y \in S : y < x}) = j - 1

----------------------------------------------------------------------------
(* C1: when fingerprinting one file of the list fails, only that file is   *)
(* lost: the batch ends normally and every other file has been             *)
(* fingerprinted and put in its group.  The code has no handler around     *)
(* fingerprint_file: the exception ends find_duplicates and main, and the   *)
(* files after the failing one are never fingerprinted.                    *)
C1_PerFileIsolation ==
    Terminal =>
        \A j \in 1..Len(files) :
            ~RaisedOn(j) =>
                /\ ReturnedFor(j)
                /\ \E n \in 1..Len(groups) : \E m \in 1..Len(groups[n].items) :
                      groups[n].items[m].path = files[j].name

----------------------------------------------------------------------------
(* C2, as stated: a file with a recognized audio extension and a working   *)
(* audio collaborator always gets kind audio, whatever the enabled kinds.  *)
(* It fails when the audio kind is not enabled (--kinds video): line 149   *)
(* asks for "audio" in kinds.                                              *)
C2_AudioWhateverKinds ==
    \A j \in Entered :
        AudioExt(files[j]) /\ AudioWorks(files[j]) =>
            /\ pc \notin {"video", "v_count", "v_read", "fallback"} \/ ~(j = Len(produced) + 1)
            /\ ~RaisedOn(j)
            /\ ReturnedFor(j) => produced[j].kind = "audio"

(* C2, amended: a file with a recognized audio extension, the audio kind   *)
(* enabled and a working audio collaborator always gets kind audio,        *)
(* whether or not the video kind is enabled: no other strategy is entered  *)
(* for it and nothing is raised.                                           *)
C2_AudioPriority ==
    \A j \in Entered :
        AudioExt(files[j]) /\ AudioWorks(files[j]) /\ "audio" \in kinds =>
            /\ pc \notin {"video", "v_count", "v_read", "fallback"} \/ ~(j = Len(produced) + 1)
            /\ ~RaisedOn(j)
            /\ ReturnedFor(j) => produced[j].kind = "audio"

C2_Witness ==
    \E j \in 1..Len(produced) :
        /\ AudioExt(files[j]) /\ AudioWorks(files[j])
        /\ kinds = {"audio", "video"}
        /\ Suffix(files[j].name) # Lower(Suffix(files[j].name))
        /\ produced[j].kind = "audio"

----------------------------------------------------------------------------
(* C3: when find_duplicates returns, the mapping has a key exactly when at *)
(* least two files of the list produced that key, no key twice, and the    *)
(* group of a key holds exactly the files that produced it, each with its  *)
(* result, in the order of the list; a key one file produced is absent.    *)
C3_Grouping ==
    pc \in {"render", "exit"} /\ files # <<>> =>
        LET With(key) == { j \in 1..Len(files) : produced[j].key = key }
        IN  /\ Len(produced) = Len(files)
            /\ \A j \in 1..Len(files) :
                  (\E n \in 1..Len(dupes) : dupes[n].key = produced[j].key)
                      <=> Cardinality(With(produced[j].key)) >= 2
            /\ \A n, m \in 1..Len(dupes) : dupes[n].key = dupes[m].key => n = m
            /\ \A n \in 1..Len(dupes) :
                  /\ Cardinality(With(dupes[n].key)) >= 2
                  /\ Len(dupes[n].items) = Cardinality(With(dupes[n].key))
                  /\ \A m \in 1..Len(dupes[n].items) :
                        LET j == Nth(With(dupes[n].key), m)
                        IN  dupes[n].items[m] =
                                [path |-> files[j].name, fp |-> produced[j]]

C3_Witness ==
    /\ pc = "exit"
    /\ Len(files) = 3
    /\ Len(dupes) = 1
    /\ Len(dupes[1].items) = 2
    /\ \E j \in 1..Len(files) : produced[j].key # dupes[1].key

----------------------------------------------------------------------------
(* C4: whatever the order of the file list, the text report and the JSON   *)
(* document present the groups sorted by key and, within a group, the      *)
(* entries sorted by file identifier.  format_report sorts; the JSON       *)
(* document of main lists dupes.items() and each group in insertion order. *)
C4_PresentationOrder ==
    /\ pc = "exit" /\ out.format = "json" =>
          /\ \A n \in 1..(Len(out.body) - 1) :
                StrLess(out.body[n].hash, out.body[n + 1].hash)
          /\ \A n \in 1..Len(out.body) :
                \A m \in 1..(Len(out.body[n].items) - 1) :
                    ~StrLess(out.body[n].items[m + 1].path,
                             out.body[n].items[m].path)
    /\ pc = "exit" /\ out.format = "text" =>
          \A n \in 1..(Len(out.body) - 1) :
              /\ out.body[n].line = "item" /\ out.body[n + 1].line = "item" =>
                    ~StrLess(out.body[n + 1].path, out.body[n].path)
              /\ out.body[n].line = "hash" =>
                    \A m \in (n + 1)..Len(out.body) :
                        out.body[m].line = "hash" =>
                            StrLess(out.body[n].key, out.body[m].key)

----------------------------------------------------------------------------
(* C5: for hashes of width hash_bits, bit i of the combined hash is 1      *)
(* exactly when the number of inputs with bit i set is at least half the   *)
(* number of inputs (a tie sets the bit); one hash combines to itself; the *)
(* empty list combines to 0.                                               *)
C5_MajorityVote ==
    pc = "return" =>
        LET hs == arg.hashes
            b == arg.hash_bits
            Bit(x, i) == (x \div Pow2(b - 1 - i)) % 2
            SetIn(i) == { m \in 1..Len(hs) : Bit(ToNat(hs[m]), i) = 1 }
        IN  /\ ret = FromNat(ToNat(ret))
            /\ ToNat(ret) < Pow2(b)
            /\ hs = <<>> => ToNat(ret) = 0
            /\ hs # <<>> =>
                  \A i \in 0..(b - 1) :
                      Bit(ToNat(ret), i) = 1 <=> 2 * Cardinality(SetIn(i)) >= Len(hs)
            /\ Len(hs) = 1 => ret = hs[1]

C5_Witness ==
    /\ pc = "return"
    /\ Len(arg.hashes) = 2
    /\ arg.hash_bits = 2
    /\ ToNat(arg.hashes[1]) = 2
    /\ ToNat(arg.hashes[2]) = 1
    /\ ToNat(ret) = 3

----------------------------------------------------------------------------
(* C6, as stated: for a file with an audio extension and the audio kind    *)
(* enabled whose audio collaborator yields no result, fingerprint_file     *)
(* raises no error and returns a video result if the video strategy        *)
(* applies and succeeds, and a fallback result otherwise.  It fails for a  *)
(* file that cannot be read: fpcalc exits non-zero on it and sha256_file   *)
(* raises.                                                                 *)
C6_NoErrorAfterAudioFailure ==
    \A j \in Entered :
        AudioExt(files[j]) /\ "audio" \in kinds /\ AudioYieldsNothing(files[j]) =>
            /\ ~RaisedOn(j)
            /\ ReturnedFor(j) =>
                  IF VideoExt(files[j]) /\ "video" \in kinds /\ DecodedAny(files[j])
                  THEN produced[j].kind = "video"
                  ELSE produced[j].kind = "fallback"

(* C6, amended: for such a file the audio step raises nothing and the next *)
(* strategy is entered; the result is never of kind audio: it is a video   *)
(* result if the video strategy applies and succeeds, and otherwise the    *)
(* fallback result with the file's digest as key when the file can be      *)
(* read; when it cannot, the error raised is the fallback's I/O error.     *)
C6_AudioFailureAbsorbed ==
    \A j \in Entered :
        AudioExt(files[j]) /\ "audio" \in kinds /\ AudioYieldsNothing(files[j]) =>
            /\ RaisedOn(j) =>
                  \/ exc = "OSError" /\ ~files[j].readable
                  \/ exc = "cv2.error" /\ VideoExt(files[j]) /\ "video" \in kinds
            /\ files[j].readable /\ ~(VideoExt(files[j]) /\ "video" \in kinds)
                  => ~RaisedOn(j)
            /\ j = Len(produced) + 1 /\ pc = "append" => fp.kind # "audio"
            /\ ReturnedFor(j) =>
                  IF VideoExt(files[j]) /\ "video" \in kinds /\ DecodedAny(files[j])
                  THEN produced[j].kind = "video"
                  ELSE /\ produced[j].kind = "fallback"
                       /\ IsDigestKey(produced[j].key, files[j])

C6_Witness ==
    \E j \in 1..Len(produced) :
        /\ AudioExt(files[j]) /\ "audio" \in kinds
        /\ fpcalc_on_path /\ files[j].fpcalc = FpcalcEmpty
        /\ produced[j].kind = "fallback"

----------------------------------------------------------------------------
(* C7, as stated: for a file with a video extension and the video kind     *)
(* enabled, fingerprint_file returns kind video, with key 'vhash:' and 16  *)
(* hex digits, exactly when at least one sampled frame decoded, and        *)
(* otherwise the fallback kind with the SHA-256 digest as key.  It fails   *)
(* for a video file that cannot be read (the capture does not open and     *)
(* sha256_file raises) and for a decoded frame whose hashing raises.       *)
C7_VideoOrFallbackResult ==
    \A j \in Entered :
        VideoExt(files[j]) /\ "video" \in kinds =>
            /\ ~RaisedOn(j)
            /\ ReturnedFor(j) =>
                  IF DecodedAny(files[j])
                  THEN produced[j].kind = "video" /\ IsVhashKey(produced[j].key)
                  ELSE /\ produced[j].kind = "fallback"
                       /\ IsDigestKey(produced[j].key, files[j])

(* C7, amended: for such a file, whenever fingerprint_file returns, the    *)
(* result is of kind video, with key 'vhash:' and the 16 lowercase hex     *)
(* digits of the combined hash, exactly when at least one sampled frame    *)
(* decoded, and otherwise of the fallback kind with the full SHA-256       *)
(* digest as key.  It raises, instead of returning, exactly when hashing a *)
(* sampled frame raises, or no sampled frame decodes and the file cannot   *)
(* be read.                                                                *)
C7_VideoFallthrough ==
    \A j \in Entered :
        VideoExt(files[j]) /\ "video" \in kinds =>
            /\ RaisedOn(j) =>
                  \/ exc = "cv2.error" /\ RejectedAny(files[j])
                  \/ exc = "OSError" /\ ~DecodedAny(files[j]) /\ ~files[j].readable
            /\ ReturnedFor(j) =>
                  /\ ~RejectedAny(files[j])
                  /\ DecodedAny(files[j]) \/ files[j].readable
                  /\ IF DecodedAny(files[j])
                     THEN produced[j].kind = "video" /\ IsVhashKey(produced[j].key)
                     ELSE /\ produced[j].kind = "fallback"
                          /\ IsDigestKey(produced[j].key, files[j])
            /\ j = Len(produced) + 1 /\ pc = "append" /\ fp.kind = "video" =>
                  /\ hashes # <<>>
                  /\ StripZeros(HexBits(SubSeq(fp.key, Len(VhashTag) + 1, Len(fp.key))))
                        = combine_hashes_hash_majority(hashes, HashBits)

C7_Witness ==
    \E j \in 1..Len(produced) :
        /\ VideoExt(files[j]) /\ "video" \in kinds
        /\ \E idx \in SampledIndices(files[j]) : ~FrameAt(files[j], idx).ok
        /\ produced[j].kind = "video"

----------------------------------------------------------------------------
(* C8, as stated: the bit of a pair of horizontally adjacent pixels is 1   *)
(* exactly when the left pixel is strictly greater than the right one.     *)
(* Line 100 compares the other way: resized[:, 1:] > resized[:, :-1] is    *)
(* right > left.                                                           *)
C8_LeftGreater ==
    pc = "return" =>
        LET hs == arg.hash_size
            Weight(r, c) == Pow2(hs * hs - ((r - 1) * hs + c))
        IN  \A r \in 1..hs : \A c \in 1..hs :
                (ToNat(ret) \div Weight(r, c)) % 2 = 1
                    <=> arg.resized[r][c] > arg.resized[r][c + 1]

(* C8, amended: for each row and each of the hash_size adjacent pairs of   *)
(* the resized grid the bit is 1 exactly when the right pixel is strictly  *)
(* greater than the left one (0 otherwise, equality included), packed      *)
(* row-major with the first pair as the most significant of the            *)
(* hash_size * hash_size bits.                                             *)
C8_BitDirection ==
    pc = "return" =>
        LET hs == arg.hash_size
            Weight(r, c) == Pow2(hs * hs - ((r - 1) * hs + c))
        IN  /\ ToNat(ret) < Pow2(hs * hs)
            /\ ret = FromNat(ToNat(ret))
            /\ \A r \in 1..hs : \A c \in 1..hs :
                  (ToNat(ret) \div Weight(r, c)) % 2 = 1
                      <=> arg.resized[r][c + 1] > arg.resized[r][c]

C8_Witness ==
    /\ pc = "return"
    /\ arg.hash_size = 2
    /\ arg.resized = <<(<<0, 1, 1>>), (<<1, 0, 1>>)>>
    /\ ToNat(ret) = 9

----------------------------------------------------------------------------
(* C9: whenever video_perceptual_hash has been left, however it was left,  *)
(* no capture it opened is still unreleased.  cap.release() is line 141    *)
(* only: an exception in frame_ahash leaves the function with the capture  *)
(* open (and line 128 returns without releasing the capture that did not   *)
(* open).                                                                  *)
C9_HandleReleased ==
    pc \notin {"v_count", "v_read"} =>
        \A n \in 1..Len(caps) : caps[n] # "open"

----------------------------------------------------------------------------
(* C10: with total_frames > 0 and sample_frames > 0, at most sample_frames *)
(* indices are attempted, max(1, total_frames div sample_frames) apart     *)
(* from 0 on, and each attempted index is a frame index of the file.       *)
(* With total_frames < sample_frames the step is 1 and the indices run to  *)
(* sample_frames - 1, past the last frame.                                 *)
C10_IndicesInside ==
    pc = "v_read" /\ Cur.video.frame_count > 0 /\ sample_frames > 0 =>
        /\ Len(indices) <= sample_frames
        /\ \A n \in 1..k :
              /\ indices[n] = (n - 1) * Max(1, Cur.video.frame_count \div sample_frames)
              /\ indices[n] \in 0..(Cur.video.frame_count - 1)

============================================================================
